---- MODULE Spec2Model ----
(***************************************************************************)
(* Inventory insight dashboard: the CSV loader (src/src/data_loader.py),   *)
(* the four insight functions (src/src/insights.py) and the Dash callbacks *)
(* that render them (src/dashboards/app.py).                               *)
(*                                                                         *)
(* A table is [columns |-> sequence of column names, rows |-> sequence of  *)
(* rows], a row being a function from column name to cell.  A cell is a   *)
(* record [k, n, d, s]: k = "str" is text (s, a sequence of characters),   *)
(* k = "fin" the number n/d in lowest terms (d > 0), k = "inf" plus or     *)
(* minus infinity (n = 1 or -1) and k = "nan" pandas' missing marker.      *)
(* float64 rounding is not modelled: arithmetic is exact.                  *)
(***************************************************************************)
EXTENDS Integers, Sequences, FiniteSets, TLC

VARIABLES csv, program, pc, INVENTORY_DF, argsort_ties, current_view, ret, memo

vars == <<csv, program, pc, INVENTORY_DF, argsort_ties, current_view, ret, memo>>

\* Largest number of data rows of the CSV file.
MaxRows == 2

(***************************************************************************)
(* Cells and float64 arithmetic as numpy/pandas evaluate it.               *)
(***************************************************************************)
Abs(x) == IF x < 0 THEN -x ELSE x

Sign(x) == IF x < 0 THEN -1 ELSE IF x > 0 THEN 1 ELSE 0

RECURSIVE GCD(_, _)
GCD(a, b) == IF b = 0 THEN a ELSE GCD(b, a % b)

NaN == [k |-> "nan", n |-> 0, d |-> 1, s |-> <<>>]

Inf(sign) == [k |-> "inf", n |-> sign, d |-> 1, s |-> <<>>]

Fin(n, d) ==
    LET g == GCD(Abs(n), d)
    IN  [k |-> "fin", n |-> n \div g, d |-> d \div g, s |-> <<>>]

Num(i) == Fin(i, 1)

Str(s) == [k |-> "str", n |-> 0, d |-> 1, s |-> s]

isna(a) == a.k = "nan"

\* a - b
FSub(a, b) ==
    CASE isna(a) \/ isna(b) -> NaN
      [] a.k = "inf" /\ b.k = "inf" -> IF a.n = b.n THEN NaN ELSE a
      [] a.k = "inf" -> a
      [] b.k = "inf" -> Inf(-b.n)
      [] OTHER -> Fin(a.n * b.d - b.n * a.d, a.d * b.d)

\* a + b
FAdd(a, b) ==
    CASE isna(a) \/ isna(b) -> NaN
      [] a.k = "inf" /\ b.k = "inf" -> IF a.n = b.n THEN a ELSE NaN
      [] a.k = "inf" -> a
      [] b.k = "inf" -> b
      [] OTHER -> Fin(a.n * b.d + b.n * a.d, a.d * b.d)

\* a * b
FMul(a, b) ==
    CASE isna(a) \/ isna(b) -> NaN
      [] a.k = "inf" \/ b.k = "inf" ->
            IF a.n = 0 \/ b.n = 0 THEN NaN ELSE Inf(Sign(a.n) * Sign(b.n))
      [] OTHER -> Fin(a.n * b.n, a.d * b.d)

\* a / b (true division of two numeric columns: x/0 is an infinity, 0/0 is NaN)
FDiv(a, b) ==
    CASE isna(a) \/ isna(b) -> NaN
      [] a.k = "inf" /\ b.k = "inf" -> NaN
      [] a.k = "inf" -> Inf(IF b.n < 0 THEN -a.n ELSE a.n)
      [] b.k = "inf" -> Num(0)
      [] b.n = 0 -> IF a.n = 0 THEN NaN ELSE Inf(Sign(a.n))
      [] OTHER -> Fin(Sign(b.n) * a.n * b.d, a.d * Abs(b.n))

\* a < b; every comparison with NaN is False
FLt(a, b) ==
    /\ ~isna(a)
    /\ ~isna(b)
    /\ CASE a.k = "inf" /\ b.k = "inf" -> a.n < b.n
         [] a.k = "inf" -> a.n < 0
         [] b.k = "inf" -> b.n > 0
         [] OTHER -> a.n * b.d < b.n * a.d

FEq(a, b) == ~isna(a) /\ ~isna(b) /\ a = b

FLe(a, b) == FLt(a, b) \/ FEq(a, b)

FGe(a, b) == FLe(b, a)

FGt(a, b) == FLt(b, a)

(***************************************************************************)
(* Text: str.strip and the parsing of a numeric field.                     *)
(***************************************************************************)
DigitVal ==
    [c \in {"0", "1", "2", "3", "4", "5", "6", "7", "8", "9"} |->
        CASE c = "0" -> 0 [] c = "1" -> 1 [] c = "2" -> 2 [] c = "3" -> 3
          [] c = "4" -> 4 [] c = "5" -> 5 [] c = "6" -> 6 [] c = "7" -> 7
          [] c = "8" -> 8 [] c = "9" -> 9]

RECURSIVE lstrip(_)
lstrip(s) == IF s # <<>> /\ Head(s) = " " THEN lstrip(Tail(s)) ELSE s

RECURSIVE rstrip(_)
rstrip(s) ==
    IF s # <<>> /\ s[Len(s)] = " " THEN rstrip(SubSeq(s, 1, Len(s) - 1)) ELSE s

strip(s) == rstrip(lstrip(s))

\* col.str.strip() on one cell of an object column: NaN stays NaN
str_strip(c) == IF c.k = "str" THEN Str(strip(c.s)) ELSE c

RECURSIVE DigitsValue(_, _)
DigitsValue(s, acc) ==
    IF s = <<>> THEN acc ELSE DigitsValue(Tail(s), 10 * acc + DigitVal[Head(s)])

IsDigits(s) == s # <<>> /\ \A i \in 1..Len(s) : s[i] \in DOMAIN DigitVal

\* pd.to_numeric(..., errors="coerce") on one cell: an integer literal (the
\* only numeric literals of the modelled files) parses, other text is NaN.
to_numeric(c) ==
    IF c.k # "str" THEN c
    ELSE LET t == strip(c.s)
         IN  CASE IsDigits(t) -> Num(DigitsValue(t, 0))
               [] t # <<>> /\ Head(t) = "-" /\ IsDigits(Tail(t)) ->
                     Num(-DigitsValue(Tail(t), 0))
               [] OTHER -> NaN

\* pd.read_csv on one field: an empty field is NaN, anything else is kept
\* as text until the loader converts it.
read_field(f) == IF f = <<>> THEN NaN ELSE Str(f)

(***************************************************************************)
(* Generic table helpers (pandas operations used by the code).             *)
(***************************************************************************)
RECURSIVE SelectIdx(_, _, _)
\* positions i >= from of seq with Test(seq[i]), ascending
SelectIdx(mask, n, from) ==
    IF from > n THEN <<>>
    ELSE IF mask[from] THEN <<from>> \o SelectIdx(mask, n, from + 1)
    ELSE SelectIdx(mask, n, from + 1)

\* df.loc[index, cols]: the rows at the positions of index, projected
take(df, index, cols) ==
    [columns |-> cols,
     rows |-> [i \in 1..Len(index) |->
                 [c \in {cols[j] : j \in 1..Len(cols)} |-> df.rows[index[i]][c]]]]

head(df, n) ==
    [columns |-> df.columns,
     rows |-> SubSeq(df.rows, 1, IF Len(df.rows) < n THEN Len(df.rows) ELSE n)]

ColumnSet(df) == {df.columns[j] : j \in 1..Len(df.columns)}

RECURSIVE InsertSorted(_, _, _)
\* x inserted after every element of the sorted sequence s that does not
\* come strictly after it (before[x, y]: x sorts strictly before y).
InsertSorted(s, x, before) ==
    IF s = <<>> THEN <<x>>
    ELSE IF before[x, Head(s)] THEN <<x>> \o s
    ELSE <<Head(s)>> \o InsertSorted(Tail(s), x, before)

RECURSIVE StableSort(_, _)
\* a stable sort of s: elements that tie keep their order in s
StableSort(s, before) ==
    IF s = <<>> THEN <<>>
    ELSE InsertSorted(StableSort(SubSeq(s, 1, Len(s) - 1), before), s[Len(s)], before)

Reverse(s) == [i \in 1..Len(s) |-> s[Len(s) + 1 - i]]

Range(s) == {s[i] : i \in 1..Len(s)}

\* one sort key: a sorts strictly before b; NaN sorts last in either direction
KeyBefore(a, b, ascending) ==
    \/ ~isna(a) /\ isna(b)
    \/ IF ascending THEN FLt(a, b) ELSE FGt(a, b)

KeyTie(a, b) == (isna(a) /\ isna(b)) \/ FEq(a, b)

\* sort_values(by=[c1, c2], ascending=[asc1, asc2]): pandas sorts on several
\* keys with np.lexsort, which is stable. index lists row positions of df.
lexsort_indexer(df, index, c1, asc1, c2, asc2) ==
    LET before == [x \in Range(index), y \in Range(index) |->
                     \/ KeyBefore(df.rows[x][c1], df.rows[y][c1], asc1)
                     \/ /\ KeyTie(df.rows[x][c1], df.rows[y][c1])
                        /\ KeyBefore(df.rows[x][c2], df.rows[y][c2], asc2)]
    IN  StableSort(index, before)

\* sort_values(by=c, ascending=False) on one key: nargsort with numpy's
\* default quicksort, which is deterministic but not stable. ties is the order
\* this build's sort leaves equal keys in: "source" or "reversed".
nargsort_desc(key, index, ties) ==
    LET before == [x \in Range(index), y \in Range(index) |->
                     KeyBefore(key[x], key[y], FALSE)]
    IN  StableSort(IF ties = "source" THEN index ELSE Reverse(index), before)

(***************************************************************************)
(* src/src/data_loader.py                                                  *)
(***************************************************************************)
\* The columns of the inventory file that the code reads. (The file's other
\* numeric columns are converted by the loader and read by nothing.)
CsvColumns ==
    <<"Product_ID", "Product_Name", "Product_Brand", "Available_Quantity",
      "Average_Selling_Price", "Average_Buying_Price", "Total_Sold",
      "Monthly_Sale_Quantity", "Average_Stock_Level">>

NUMERIC_COLUMNS ==
    {"Available_Quantity", "Average_Selling_Price", "Average_Buying_Price",
     "Total_Incoming", "Total_Outgoing", "Defective_Stock", "Total_Sold",
     "Monthly_Sale_Quantity", "Holding_Cost", "Average_Stock_Level",
     "Profit_Per_Unit", "Profit_After_HC"}

EmptyTable == [columns |-> <<>>, rows |-> <<>>]

\* df = pd.read_csv(csv_path)
read_csv(file) ==
    [columns |-> CsvColumns,
     rows |-> [i \in 1..Len(file.rows) |->
                 [c \in Range(CsvColumns) |-> read_field(file.rows[i][c])]]]

\* df[string_columns].apply(lambda col: col.str.strip())
strip_strings(df) ==
    [columns |-> df.columns,
     rows |-> [i \in 1..Len(df.rows) |->
                 [c \in ColumnSet(df) |-> str_strip(df.rows[i][c])]]]

\* for column in NUMERIC_COLUMNS: if column in df.columns: pd.to_numeric(...)
coerce_numeric(df) ==
    [columns |-> df.columns,
     rows |-> [i \in 1..Len(df.rows) |->
                 [c \in ColumnSet(df) |->
                    IF c \in NUMERIC_COLUMNS THEN to_numeric(df.rows[i][c])
                    ELSE df.rows[i][c]]]]

\* A plausible slip: the ratio is left as a fraction, not a percentage.
profit_margin_fraction(price_diff, buying_price) == FDiv(price_diff, buying_price)

\* (price_diff / df["Average_Buying_Price"]) * 100, one row
profit_margin(price_diff, buying_price) ==
    FMul(FDiv(price_diff, buying_price), Num(100))

DerivedColumns == <<"Profit", "StockValue", "ProfitMargin">>

\* the three derived columns, row-wise
enrich(df) ==
    [columns |-> df.columns \o DerivedColumns,
     rows |-> [i \in 1..Len(df.rows) |->
        LET r == df.rows[i]
            price_diff == FSub(r["Average_Selling_Price"], r["Average_Buying_Price"])
        IN  r @@ [c \in Range(DerivedColumns) |->
                    CASE c = "Profit" -> FMul(price_diff, r["Total_Sold"])
                      [] c = "StockValue" ->
                            FMul(r["Available_Quantity"], r["Average_Buying_Price"])
                      [] c = "ProfitMargin" ->
                            profit_margin(price_diff, r["Average_Buying_Price"])]]]

load_inventory_data(file) == enrich(coerce_numeric(strip_strings(read_csv(file))))

(***************************************************************************)
(* src/src/insights.py.  Each function returns [df, index, insights]: df   *)
(* is the caller's table as the call leaves it, index the labels (source   *)
(* row positions) of the result's rows before reset_index(drop=True), and  *)
(* insights the returned table.                                            *)
(***************************************************************************)
LowStockColumns ==
    <<"Product_ID", "Product_Name", "Available_Quantity", "Profit", "ProfitMargin">>

\* A plausible slip: < for <= on the quantity.
low_stock_mask_strict(df, quantity_threshold, margin_threshold) ==
    [i \in 1..Len(df.rows) |->
        /\ FLt(df.rows[i]["Available_Quantity"], quantity_threshold)
        /\ FGe(df.rows[i]["ProfitMargin"], margin_threshold)]

low_stock_mask(df, quantity_threshold, margin_threshold) ==
    [i \in 1..Len(df.rows) |->
        /\ FLe(df.rows[i]["Available_Quantity"], quantity_threshold)
        /\ FGe(df.rows[i]["ProfitMargin"], margin_threshold)]

\* A plausible slip: the tie-break on Profit is left out.
low_stock_sort_margin_only(df, index) ==
    lexsort_indexer(df, index, "ProfitMargin", FALSE, "ProfitMargin", FALSE)

low_stock_sort(df, index) ==
    lexsort_indexer(df, index, "ProfitMargin", FALSE, "Profit", FALSE)

\* what a call hands back: df as the call leaves it, the labels and the table
returned(df, frame, index, cols) ==
    [df |-> df, index |-> index, insights |-> take(frame, index, cols)]

low_stock_profitable(df, quantity_threshold, margin_threshold) ==
    returned(df, df,
             low_stock_sort(df,
                 SelectIdx(low_stock_mask(df, quantity_threshold, margin_threshold),
                           Len(df.rows), 1)),
             LowStockColumns)

OverstockColumns ==
    <<"Product_ID", "Product_Name", "Product_Brand", "Available_Quantity",
      "ProfitMargin", "StockValue">>

overstock_mask(df, quantity_threshold, margin_threshold) ==
    [i \in 1..Len(df.rows) |->
        /\ FGe(df.rows[i]["Available_Quantity"], quantity_threshold)
        /\ FLe(df.rows[i]["ProfitMargin"], margin_threshold)]

\* A plausible slip: ascending=False for both keys.
overstock_sort_descending(df, index) ==
    lexsort_indexer(df, index, "Available_Quantity", FALSE, "ProfitMargin", FALSE)

overstock_sort(df, index) ==
    lexsort_indexer(df, index, "Available_Quantity", FALSE, "ProfitMargin", TRUE)

overstock_low_profit(df, quantity_threshold, margin_threshold) ==
    returned(df, df,
             overstock_sort(df,
                 SelectIdx(overstock_mask(df, quantity_threshold, margin_threshold),
                           Len(df.rows), 1)),
             OverstockColumns)

FastMovingColumns ==
    <<"Product_ID", "Product_Name", "Monthly_Sale_Quantity", "Average_Stock_Level",
      "SellThroughRate", "ProfitMargin">>

\* A plausible slip: >= 0 for > 0 on the stock level.
fast_moving_prefilter_nonnegative(df, min_monthly_sales) ==
    [i \in 1..Len(df.rows) |->
        /\ FGe(df.rows[i]["Average_Stock_Level"], Num(0))
        /\ FGe(df.rows[i]["Monthly_Sale_Quantity"], min_monthly_sales)]

\* df[(df["Average_Stock_Level"] > 0) & (df["Monthly_Sale_Quantity"] >= min_monthly_sales)]
fast_moving_prefilter(df, min_monthly_sales) ==
    [i \in 1..Len(df.rows) |->
        /\ FGt(df.rows[i]["Average_Stock_Level"], Num(0))
        /\ FGe(df.rows[i]["Monthly_Sale_Quantity"], min_monthly_sales)]

\* frame[name] = frame["Total_Sold"] / frame["Average_Stock_Level"]
with_sell_through(frame) ==
    [columns |-> IF "SellThroughRate" \in ColumnSet(frame) THEN frame.columns
                 ELSE Append(frame.columns, "SellThroughRate"),
     rows |-> [i \in 1..Len(frame.rows) |->
                 [c \in ColumnSet(frame) \cup {"SellThroughRate"} |->
                    IF c = "SellThroughRate"
                    THEN FDiv(frame.rows[i]["Total_Sold"],
                              frame.rows[i]["Average_Stock_Level"])
                    ELSE frame.rows[i][c]]]]

\* working_df.loc[working_df["SellThroughRate"] >= velocity_threshold]
velocity_mask(working_df, velocity_threshold) ==
    [j \in 1..Len(working_df.rows) |->
        FGe(working_df.rows[j]["SellThroughRate"], velocity_threshold)]

\* .sort_values(by="SellThroughRate", ascending=False): positions in working_df
velocity_sort(working_df, selected, ties) ==
    nargsort_desc([j \in 1..Len(working_df.rows) |->
                      working_df.rows[j]["SellThroughRate"]],
                  selected, ties)

\* the labels (row positions in df) of the rows at positions sorted of working_df
relabel(labels, sorted) == [j \in 1..Len(sorted) |-> labels[sorted[j]]]

fast_moving_sorted(labels, working_df, sorted) ==
    [index |-> relabel(labels, sorted),
     insights |-> take(working_df, sorted, FastMovingColumns)]

\* working_df: the pre-filtered rows (labels) with their sell-through rate
fast_moving_working(labels, working_df, velocity_threshold, ties) ==
    fast_moving_sorted(labels, working_df,
        velocity_sort(working_df,
            SelectIdx(velocity_mask(working_df, velocity_threshold),
                      Len(working_df.rows), 1),
            ties))

fast_moving_labelled(df, labels, velocity_threshold, ties) ==
    fast_moving_working(labels, with_sell_through(take(df, labels, df.columns)),
                        velocity_threshold, ties)

\* the rows of the result and their labels
fast_moving_select(df, velocity_threshold, min_monthly_sales, ties) ==
    fast_moving_labelled(df,
        SelectIdx(fast_moving_prefilter(df, min_monthly_sales), Len(df.rows), 1),
        velocity_threshold, ties)

\* A plausible slip: the rate is assigned on df itself, not on a copy.
fast_moving_products_inplace(df, velocity_threshold, min_monthly_sales, ties) ==
    [df |-> with_sell_through(df)]
        @@ fast_moving_select(df, velocity_threshold, min_monthly_sales, ties)

\* working_df = df[...].copy(): the new column is assigned on the copy, and df
\* is left as it was.
fast_moving_products(df, velocity_threshold, min_monthly_sales, ties) ==
    [df |-> df] @@ fast_moving_select(df, velocity_threshold, min_monthly_sales, ties)

BrandSummaryColumns ==
    <<"Product_Brand", "TotalProfit", "TotalStockValue", "AvgProfitMargin", "SKUCount">>

\* code points of the characters of the modelled files
ord ==
    [c \in {" ", "-", "a", "b", "n", "p", "q", "x"} \cup DOMAIN DigitVal |->
        CASE c = " " -> 32 [] c = "-" -> 45 [] c = "a" -> 97 [] c = "b" -> 98
          [] c = "n" -> 110 [] c = "p" -> 112 [] c = "q" -> 113 [] c = "x" -> 120
          [] OTHER -> 48 + DigitVal[c]]

RECURSIVE StrLt(_, _)
\* Python's < on strings
StrLt(s, t) ==
    CASE t = <<>> -> FALSE
      [] s = <<>> -> TRUE
      [] ord[Head(s)] # ord[Head(t)] -> ord[Head(s)] < ord[Head(t)]
      [] OTHER -> StrLt(Tail(s), Tail(t))

RECURSIVE Distinct(_)
\* the distinct elements of s, in order of first occurrence
Distinct(s) ==
    IF s = <<>> THEN <<>>
    ELSE LET d == Distinct(SubSeq(s, 1, Len(s) - 1))
         IN  IF s[Len(s)] \in Range(d) THEN d ELSE Append(d, s[Len(s)])

\* A plausible slip: dropna=False is left out, and the NaN group is dropped.
group_keys_dropna(df) ==
    LET keys == Distinct(SelectSeq([i \in 1..Len(df.rows) |-> df.rows[i]["Product_Brand"]],
                                   LAMBDA x : ~isna(x)))
        before == [x \in Range(keys), y \in Range(keys) |-> StrLt(x.s, y.s)]
    IN  StableSort(keys, before)

\* groupby("Product_Brand", dropna=False): the group keys, sorted, NaN last
group_keys(df) ==
    LET keys == Distinct([i \in 1..Len(df.rows) |-> df.rows[i]["Product_Brand"]])
        before == [x \in Range(keys), y \in Range(keys) |->
                     \/ ~isna(x) /\ isna(y)
                     \/ ~isna(x) /\ ~isna(y) /\ StrLt(x.s, y.s)]
    IN  StableSort(keys, before)

\* the positions of the rows of one group
group_rows(df, key) ==
    SelectIdx([i \in 1..Len(df.rows) |-> df.rows[i]["Product_Brand"] = key],
              Len(df.rows), 1)

RECURSIVE agg_sum(_, _, _)
\* "sum": NaN is skipped, an empty sum is 0
agg_sum(df, rows, col) ==
    IF rows = <<>> THEN Num(0)
    ELSE LET v == df.rows[Head(rows)][col]
             rest == agg_sum(df, Tail(rows), col)
         IN  IF isna(v) THEN rest ELSE FAdd(v, rest)

\* "mean": NaN is skipped, the mean of nothing is NaN
agg_mean(df, rows, col) ==
    LET n == Cardinality({i \in Range(rows) : ~isna(df.rows[i][col])})
    IN  IF n = 0 THEN NaN ELSE FDiv(agg_sum(df, rows, col), Num(n))

\* A plausible slip: "count" for "nunique".
agg_count(df, rows, col) ==
    Cardinality({i \in Range(rows) : ~isna(df.rows[i][col])})

\* "nunique": the number of distinct values, NaN not counted
agg_nunique(df, rows, col) ==
    Cardinality({df.rows[i][col] : i \in Range(rows)} \ {NaN})

\* the aggregates of one group
brand_row(df, key, rows) ==
    [c \in Range(BrandSummaryColumns) |->
        CASE c = "Product_Brand" -> key
          [] c = "TotalProfit" -> agg_sum(df, rows, "Profit")
          [] c = "TotalStockValue" -> agg_sum(df, rows, "StockValue")
          [] c = "AvgProfitMargin" -> agg_mean(df, rows, "ProfitMargin")
          [] c = "SKUCount" -> Num(agg_nunique(df, rows, "Product_ID"))]

\* .agg(...): one row per group, in the order of the group keys
brand_agg(df, keys) ==
    [columns |-> BrandSummaryColumns,
     rows |-> [g \in 1..Len(keys) |-> brand_row(df, keys[g], group_rows(df, keys[g]))]]

\* .sort_values(by="TotalProfit", ascending=False).reset_index()
brand_sorted(df, grouped, ties) ==
    returned(df, grouped,
             nargsort_desc([g \in 1..Len(grouped.rows) |-> grouped.rows[g]["TotalProfit"]],
                           [g \in 1..Len(grouped.rows) |-> g], ties),
             BrandSummaryColumns)

brand_summary(df, ties) == brand_sorted(df, brand_agg(df, group_keys(df)), ties)

(***************************************************************************)
(* src/dashboards/app.py                                                   *)
(***************************************************************************)
\* default thresholds of the insight functions
LowStockQuantity == 60

LowStockMargin == 20

OverstockQuantity == 200

OverstockMargin == 10

FastMovingMinSales == 40

FastMovingVelocity == Fin(6, 5)

\* rows of the sub-table shown in the table and in the bar chart
TableRows == 20

ChartRows == 15

VIEW_BUTTONS == <<"low-stock", "over-stock", "fast-moving", "brand-summary">>

\* VIEW_FUNCTIONS.get(view_key, low_stock_profitable)
view_function(view_key) ==
    CASE view_key = "over-stock" -> "overstock_low_profit"
      [] view_key = "fast-moving" -> "fast_moving_products"
      [] view_key = "brand-summary" -> "brand_summary"
      [] OTHER -> "low_stock_profitable"

\* the arguments a call func(INVENTORY_DF) takes from the defaults
default_args(fn) ==
    CASE fn = "low_stock_profitable" -> <<Num(LowStockQuantity), Num(LowStockMargin)>>
      [] fn = "overstock_low_profit" -> <<Num(OverstockQuantity), Num(OverstockMargin)>>
      [] fn = "fast_moving_products" -> <<FastMovingVelocity, Num(FastMovingMinSales)>>
      [] OTHER -> <<>>

\* a call of one of the insight functions
call_insight(fn, df, args, ties) ==
    CASE fn = "low_stock_profitable" -> low_stock_profitable(df, args[1], args[2])
      [] fn = "overstock_low_profit" -> overstock_low_profit(df, args[1], args[2])
      [] fn = "fast_moving_products" -> fast_moving_products(df, args[1], args[2], ties)
      [] OTHER -> brand_summary(df, ties)

\* build_table(df): the DataTable's columns and records
build_table(df) == [columns |-> df.columns, data |-> df.rows]

\* the columns a Plotly Express figure is asked to read
chart_columns(view_key) ==
    IF view_key = "brand-summary" THEN {"Product_Brand", "TotalStockValue"}
    ELSE {"Product_Name", "Profit", "ProfitMargin"}

NoChart == [kind |-> "none", data |-> EmptyTable]

\* build_chart(view_key, df): px.pie / px.bar raise ValueError when an argument
\* names a column the data frame does not have.
build_chart(view_key, df) ==
    IF ~(chart_columns(view_key) \subseteq ColumnSet(df))
    THEN [status |-> "ValueError", fig |-> NoChart]
    ELSE IF view_key = "brand-summary"
    THEN [status |-> "ok", fig |-> [kind |-> "pie", data |-> df]]
    ELSE [status |-> "ok", fig |-> [kind |-> "bar", data |-> head(df, ChartRows)]]

(***************************************************************************)
(* The inventory files of the model.                                       *)
(***************************************************************************)
PosChar(i) == CHOOSE c \in DOMAIN DigitVal : DigitVal[c] = i

CsvRow(id, name, brand, qty, sell, buy, sold, msq, asl) ==
    [c \in Range(CsvColumns) |->
        CASE c = "Product_ID" -> id
          [] c = "Product_Name" -> name
          [] c = "Product_Brand" -> brand
          [] c = "Available_Quantity" -> qty
          [] c = "Average_Selling_Price" -> sell
          [] c = "Average_Buying_Price" -> buy
          [] c = "Total_Sold" -> sold
          [] c = "Monthly_Sale_Quantity" -> msq
          [] c = "Average_Stock_Level" -> asl]

NoFile == [exists |-> FALSE, rows |-> <<>>]

\* The two rows of the scenario of the documentation.
ScenarioFile ==
    [exists |-> TRUE,
     rows |-> << CsvRow(<<"1">>, <<"n", "1">>, <<"a">>, <<"1", "0">>,
                        <<"1", "0", "0">>, <<"5", "0">>, <<"5">>,
                        <<"4", "0">>, <<"1", "0">>),
                 CsvRow(<<"2">>, <<"n", "2">>, <<"a">>, <<"5", "0", "0">>,
                        <<"8", "0">>, <<"8", "0">>, <<"0">>,
                        <<"4", "0">>, <<"1", "0">>) >>]

\* Files whose rows differ in quantity, prices and units sold: the margin is
\* missing (0/0), infinite (100/0), 100, 0 or -100, the latter with two
\* different profits; one row has a Total_Sold that is no number.
PriceFields ==
    [qty : {<<"1", "0">>},
     price : {<< <<"0">>, <<"0">> >>,
              << <<"1", "0", "0">>, <<"0">> >>,
              << <<"1", "0", "0">>, <<"5", "0">> >>,
              << <<"1", "0", "0">>, <<"1", "0", "0">> >>,
              << <<"0">>, <<"5", "0">> >>,
              << <<"0">>, <<"1", "0", "0">> >>},
     sold : {<<"5">>}]
        \cup [qty : {<<"5", "0", "0">>},
              price : {<< <<"1", "0", "0">>, <<"5", "0">> >>,
                       << <<"1", "0", "0">>, <<"1", "0", "0">> >>,
                       << <<"0">>, <<"5", "0">> >>},
              sold : {<<"5">>}]
        \cup {[qty |-> <<"1", "0">>, price |-> << <<"1", "0", "0">>, <<"5", "0">> >>,
               sold |-> <<"x">>]}

PriceFiles ==
    {[exists |-> TRUE,
      rows |-> [i \in DOMAIN f |->
                  CsvRow(<<"p", PosChar(i)>>, <<"n", PosChar(i)>>, <<"a">>,
                         f[i].qty, f[i].price[1], f[i].price[2], f[i].sold,
                         <<"4", "0">>, <<"1", "0">>)]] :
        f \in UNION {[1..n -> PriceFields] : n \in 0..MaxRows}}

\* Files whose rows differ in stock level (missing, 0, 10), units sold and
\* monthly sales.
VelocityFields ==
    [asl : {<<>>, <<"0">>, <<"1", "0">>},
     msq : {<<"4", "0">>},
     sold : {<<"1", "2">>, <<"2", "0">>}]
        \cup {[asl |-> <<"1", "0">>, msq |-> <<"3", "9">>, sold |-> <<"2", "0">>],
              [asl |-> <<"1", "0">>, msq |-> <<"4", "0">>, sold |-> <<>>]}

VelocityFiles ==
    {[exists |-> TRUE,
      rows |-> [i \in DOMAIN f |->
                  CsvRow(<<"p", PosChar(i)>>, <<"n", PosChar(i)>>, <<"a">>,
                         <<"1", "0">>, <<"1", "0", "0">>, <<"5", "0">>, f[i].sold,
                         f[i].msq, f[i].asl)]] :
        f \in UNION {[1..n -> VelocityFields] : n \in 1..MaxRows}}

\* Files whose rows differ in product id and brand (missing, blank, padded),
\* one row without an id and one with other sales.
BrandFields ==
    [id : {<<"p">>, <<"q">>},
     brand : {<<>>, <<" ">>, <<"a">>, <<"a", " ">>, <<"b">>},
     sold : {<<"5">>}]
        \cup {[id |-> <<>>, brand |-> <<"a">>, sold |-> <<"5">>],
              [id |-> <<"p">>, brand |-> <<"b">>, sold |-> <<"2", "0">>]}

BrandFiles ==
    {[exists |-> TRUE,
      rows |-> [i \in DOMAIN f |->
                  CsvRow(f[i].id, <<"n", PosChar(i)>>, f[i].brand,
                         <<"1", "0">>, <<"1", "0", "0">>, <<"5", "0">>, f[i].sold,
                         <<"4", "0">>, <<"1", "0">>)]] :
        f \in UNION {[1..n -> BrandFields] : n \in 1..MaxRows}}

CsvFiles == {NoFile, ScenarioFile} \cup PriceFiles \cup VelocityFiles \cup BrandFiles

\* thresholds of the direct calls
LowStockArgs == {<<Num(q), Num(m)>> : q \in {10, 500}, m \in {-100, 100}}

OverstockArgs == {<<Num(q), Num(m)>> : q \in {100, 500}, m \in {-100, 10}}

FastMovingArgs == {<<v, Num(s)>> : v \in {FastMovingVelocity, Num(2)}, s \in {0, 40}}

(***************************************************************************)
(* The state machine.  program is the entry point that runs: "insights", a *)
(* script that loads the file and calls the insight functions, or "app",   *)
(* the dashboard, whose callbacks call them through get_insight_data.  ret *)
(* is what the last operation returned: the insight function called (fn,   *)
(* args), its result (index, out) and, for render_view, the outcome        *)
(* (status, table, chart).  memo keeps one earlier call and its result.    *)
(***************************************************************************)
NoRet ==
    [op |-> "none", fn |-> "none", args |-> <<>>, index |-> <<>>,
     out |-> EmptyTable, status |-> "ok", table |-> build_table(EmptyTable),
     chart |-> NoChart]

NoMemo == [fn |-> "none", args |-> <<>>, out |-> EmptyTable, again |-> FALSE]

InitWith(files) ==
    /\ csv \in files
    /\ program \in {"insights", "app"}
    /\ pc = "import"
    /\ INVENTORY_DF = EmptyTable
    /\ argsort_ties \in {"source", "reversed"}
    /\ current_view = "low-stock"
    /\ ret = NoRet
    /\ memo = NoMemo

Init == InitWith(CsvFiles)

\* INVENTORY_DF = load_inventory_data(), at import of the app
Load ==
    /\ pc = "import"
    /\ IF csv.exists
       THEN /\ INVENTORY_DF' = load_inventory_data(csv)
            /\ pc' = "ready"
       ELSE /\ INVENTORY_DF' = INVENTORY_DF
            /\ pc' = "FileNotFoundError"
    /\ UNCHANGED <<csv, program, argsort_ties, current_view, ret, memo>>

\* memo after a call: the first call to remember is kept with its result,
\* and a later call with the same function and arguments is noted in again.
Remember(fn, args, out, remember) ==
    IF memo.fn = "none"
    THEN IF remember THEN [fn |-> fn, args |-> args, out |-> out, again |-> FALSE]
         ELSE memo
    ELSE IF memo.fn = fn /\ memo.args = args THEN [memo EXCEPT !.again = TRUE]
    ELSE memo

\* the state after a call func(df, ...) on the shared table that returned r
Return(r, fn, args, remember) ==
    /\ INVENTORY_DF' = r.df
    /\ ret' = [NoRet EXCEPT !.op = fn, !.fn = fn, !.args = args,
                            !.index = r.index, !.out = r.insights]
    /\ memo' = Remember(fn, args, r.insights, remember)
    /\ UNCHANGED <<csv, program, pc, argsort_ties, current_view>>

LowStockProfitable(remember) ==
    /\ pc = "ready"
    /\ program = "insights"
    /\ \E args \in LowStockArgs :
          Return(low_stock_profitable(INVENTORY_DF, args[1], args[2]),
                 "low_stock_profitable", args, remember)

OverstockLowProfit(remember) ==
    /\ pc = "ready"
    /\ program = "insights"
    /\ \E args \in OverstockArgs :
          Return(overstock_low_profit(INVENTORY_DF, args[1], args[2]),
                 "overstock_low_profit", args, remember)

FastMovingProducts(remember) ==
    /\ pc = "ready"
    /\ program = "insights"
    /\ \E args \in FastMovingArgs :
          Return(fast_moving_products(INVENTORY_DF, args[1], args[2], argsort_ties),
                 "fast_moving_products", args, remember)

BrandSummary(remember) ==
    /\ pc = "ready"
    /\ program = "insights"
    /\ Return(brand_summary(INVENTORY_DF, argsort_ties), "brand_summary", <<>>, remember)

\* update_view_store: the button that fired, or no_update when none did
UpdateViewStore ==
    /\ pc = "ready"
    /\ program = "app"
    /\ \E button \in Range(VIEW_BUTTONS) \cup {"none"} :
          current_view' = IF button = "none" THEN current_view ELSE button
    /\ UNCHANGED <<csv, program, pc, INVENTORY_DF, argsort_ties, ret, memo>>

\* the state after render_view got df from get_insight_data and built chart
Rendered(r, chart, fn, remember) ==
    /\ INVENTORY_DF' = r.df
    /\ ret' = [op |-> "render_view", fn |-> fn, args |-> default_args(fn),
               index |-> r.index, out |-> r.insights, status |-> chart.status,
               table |-> build_table(head(r.insights, TableRows)),
               chart |-> chart.fig]
    /\ memo' = Remember(fn, default_args(fn), r.insights, remember)
    /\ UNCHANGED <<csv, program, pc, argsort_ties, current_view>>

\* get_insight_data(view_key): the matching function on INVENTORY_DF
get_insight_data(view_key) ==
    call_insight(view_function(view_key), INVENTORY_DF,
                 default_args(view_function(view_key)), argsort_ties)

\* build_chart(current_view, df) on the result r of get_insight_data
render_chart(view_key, r) == build_chart(view_key, r.insights)

RenderedFrom(r, remember) ==
    Rendered(r, render_chart(current_view, r), view_function(current_view), remember)

\* render_view(current_view): get_insight_data, build_table, build_chart
RenderView(remember) ==
    /\ pc = "ready"
    /\ program = "app"
    /\ RenderedFrom(get_insight_data(current_view), remember)

Next ==
    \/ Load
    \/ LowStockProfitable(FALSE)
    \/ OverstockLowProfit(FALSE)
    \/ FastMovingProducts(FALSE)
    \/ BrandSummary(FALSE)
    \/ UpdateViewStore
    \/ RenderView(FALSE)

Spec == Init /\ [][Next]_vars

\* Files for the runs that keep an earlier call in memo.
MixedFields ==
    [brand : {<<"a">>, <<"b">>},
     asl : {<<"0">>, <<"1", "0">>},
     sold : {<<"2", "0">>}]

MixedFiles ==
    {[exists |-> TRUE,
      rows |-> [i \in DOMAIN f |->
                  CsvRow(<<"p", PosChar(i)>>, <<"n", PosChar(i)>>, f[i].brand,
                         <<"5", "0", "0">>, <<"1", "0", "0">>, <<"1", "0", "0">>,
                         f[i].sold, <<"4", "0">>, f[i].asl)]] :
        f \in UNION {[1..n -> MixedFields] : n \in 1..MaxRows}}

InitRepeat == InitWith({ScenarioFile} \cup MixedFiles)

NextRepeat ==
    \/ Load
    \/ \E remember \in BOOLEAN : LowStockProfitable(remember)
    \/ \E remember \in BOOLEAN : OverstockLowProfit(remember)
    \/ \E remember \in BOOLEAN : FastMovingProducts(remember)
    \/ \E remember \in BOOLEAN : BrandSummary(remember)
    \/ UpdateViewStore
    \/ \E remember \in BOOLEAN : RenderView(remember)

SpecRepeat == InitRepeat /\ [][NextRepeat]_vars

(***************************************************************************)
(* Properties.                                                             *)
(***************************************************************************)
Cell(i, c) == INVENTORY_DF.rows[i][c]

RowIds == 1..Len(INVENTORY_DF.rows)

\* the last operation called the insight function fn (directly or to render)
Called(fn) == pc = "ready" /\ ret.fn = fn

\* the result's rows are the rows of INVENTORY_DF at ret.index, each once,
\* projected on cols
ProjectionOf(cols) ==
    /\ ret.out.columns = cols
    /\ Len(ret.out.rows) = Len(ret.index)
    /\ Cardinality(Range(ret.index)) = Len(ret.index)
    /\ \A j \in 1..Len(ret.index) :
          ret.out.rows[j] = [c \in Range(cols) |-> Cell(ret.index[j], c)]

\* every two rows of the result, the earlier one first, are in order
OrderedBy(InOrder(_, _)) ==
    \A j, k \in 1..Len(ret.index) : j < k => InOrder(ret.index[j], ret.index[k])

SameOrBothMissing(a, b) == FEq(a, b) \/ (isna(a) /\ isna(b))

\* C1: every loaded row whose Average_Buying_Price is zero has a missing
\* ProfitMargin, whatever its Average_Selling_Price.
C1_ZeroBuyingPriceMarginMissing ==
    pc = "ready" =>
        \A i \in RowIds :
            Cell(i, "Average_Buying_Price") = Num(0) => isna(Cell(i, "ProfitMargin"))

ScenarioLoaded == pc = "ready" /\ csv = ScenarioFile

Derived(i) == <<Cell(i, "Profit"), Cell(i, "StockValue"), Cell(i, "ProfitMargin")>>

\* C2 as stated: the scenario's row 1 has Profit 250, StockValue 500 and
\* ProfitMargin 100, its row 2 Profit 0, StockValue 40000 and a missing margin.
C2_ScenarioAsStated ==
    ScenarioLoaded =>
        /\ Derived(1) = <<Num(250), Num(500), Num(100)>>
        /\ Derived(2) = <<Num(0), Num(40000), NaN>>

\* C2 amended: as stated, but the margin of row 2 (buy 80, sell 80) is 0.
C2_ScenarioDerivedColumns ==
    ScenarioLoaded =>
        /\ Derived(1) = <<Num(250), Num(500), Num(100)>>
        /\ Derived(2) = <<Num(0), Num(40000), Num(0)>>

C2_Witness == ScenarioLoaded /\ Len(INVENTORY_DF.rows) = 2

\* C3: low_stock_profitable returns exactly the rows with Available_Quantity
\* <= quantity_threshold and ProfitMargin >= margin_threshold, each once, and
\* never a row whose ProfitMargin is missing.
C3_LowStockExactFilter ==
    Called("low_stock_profitable") =>
        /\ ProjectionOf(LowStockColumns)
        /\ Range(ret.index) =
              {i \in RowIds : /\ FLe(Cell(i, "Available_Quantity"), ret.args[1])
                              /\ FGe(Cell(i, "ProfitMargin"), ret.args[2])}
        /\ \A i \in Range(ret.index) : ~isna(Cell(i, "ProfitMargin"))

\* a row is returned while a row of qualifying quantity is left out for its
\* missing margin
C3_Witness ==
    /\ Called("low_stock_profitable")
    /\ Len(ret.index) = 1
    /\ \E i \in RowIds \ Range(ret.index) :
          /\ isna(Cell(i, "ProfitMargin"))
          /\ FLe(Cell(i, "Available_Quantity"), ret.args[1])

LowStockInOrder(x, y) ==
    /\ FGe(Cell(x, "ProfitMargin"), Cell(y, "ProfitMargin"))
    /\ FEq(Cell(x, "ProfitMargin"), Cell(y, "ProfitMargin")) =>
          /\ ~isna(Cell(x, "Profit")) /\ ~isna(Cell(y, "Profit")) =>
                FGe(Cell(x, "Profit"), Cell(y, "Profit"))
          /\ isna(Cell(x, "Profit")) => isna(Cell(y, "Profit"))
          /\ SameOrBothMissing(Cell(x, "Profit"), Cell(y, "Profit")) => x < y

\* C4: the result of low_stock_profitable is in descending order of
\* ProfitMargin, rows of equal margin in descending order of Profit (a missing
\* Profit last), and rows equal on both keys in their source order.
C4_LowStockOrder == Called("low_stock_profitable") => OrderedBy(LowStockInOrder)

\* two rows of equal margin come back in the order of their Profit, which is
\* not their source order
C4_Witness ==
    /\ Called("low_stock_profitable")
    /\ ret.index = <<2, 1>>
    /\ FEq(Cell(1, "ProfitMargin"), Cell(2, "ProfitMargin"))
    /\ FLt(Cell(1, "Profit"), Cell(2, "Profit"))

OverstockInOrder(x, y) ==
    /\ FGe(Cell(x, "Available_Quantity"), Cell(y, "Available_Quantity"))
    /\ FEq(Cell(x, "Available_Quantity"), Cell(y, "Available_Quantity")) =>
          FLe(Cell(x, "ProfitMargin"), Cell(y, "ProfitMargin"))

SellThrough(i) == FDiv(Cell(i, "Total_Sold"), Cell(i, "Average_Stock_Level"))

FastMovingInOrder(x, y) == FGe(SellThrough(x), SellThrough(y))

\* C6: fast_moving_products returns exactly the rows with Average_Stock_Level
\* > 0, Monthly_Sale_Quantity >= min_monthly_sales and Total_Sold /
\* Average_Stock_Level >= velocity_threshold, in descending order of that
\* ratio, and never a row whose stock level is zero, negative or missing.
C6_FastMovingFilterAndOrder ==
    Called("fast_moving_products") =>
        /\ Len(ret.out.rows) = Len(ret.index)
        /\ Cardinality(Range(ret.index)) = Len(ret.index)
        /\ Range(ret.index) =
              {i \in RowIds : /\ FGt(Cell(i, "Average_Stock_Level"), Num(0))
                              /\ FGe(Cell(i, "Monthly_Sale_Quantity"), ret.args[2])
                              /\ FGe(SellThrough(i), ret.args[1])}
        /\ \A j \in 1..Len(ret.index) :
              /\ ret.out.rows[j]["SellThroughRate"] = SellThrough(ret.index[j])
              /\ ret.out.rows[j]["Product_Name"] = Cell(ret.index[j], "Product_Name")
              /\ ret.out.rows[j]["Average_Stock_Level"].k = "fin"
              /\ ret.out.rows[j]["Average_Stock_Level"].n > 0
        /\ OrderedBy(FastMovingInOrder)

\* a row is returned while a row of zero stock level, with enough monthly sales
\* and units sold, is left out
C6_Witness ==
    /\ Called("fast_moving_products")
    /\ Len(ret.index) = 1
    /\ \E i \in RowIds \ Range(ret.index) :
          /\ Cell(i, "Average_Stock_Level") = Num(0)
          /\ FGe(Cell(i, "Monthly_Sale_Quantity"), ret.args[2])
          /\ FGt(Cell(i, "Total_Sold"), Num(0))

\* the rows of INVENTORY_DF of the brand of row g of the result
GroupOf(g) == {i \in RowIds : Cell(i, "Product_Brand") = ret.out.rows[g]["Product_Brand"]}

DistinctIds(S) == {Cell(i, "Product_ID") : i \in S} \ {NaN}

RECURSIVE SumSKUCount(_)
\* the sum of SKUCount over the first n rows of the result
SumSKUCount(n) ==
    IF n = 0 THEN 0 ELSE ret.out.rows[n]["SKUCount"].n + SumSKUCount(n - 1)

SKUCountPerBrand ==
    \A g \in 1..Len(ret.out.rows) :
        ret.out.rows[g]["SKUCount"] = Num(Cardinality(DistinctIds(GroupOf(g))))

NoIdUnderTwoBrands ==
    \A i, j \in RowIds :
        Cell(i, "Product_ID") = Cell(j, "Product_ID") /\ ~isna(Cell(i, "Product_ID"))
            => Cell(i, "Product_Brand") = Cell(j, "Product_Brand")

\* C7 as stated: each group's SKUCount is the number of distinct Product_ID of
\* the brand's rows, and the SKUCounts sum to the number of distinct Product_ID
\* of the table.
C7_SKUCountSumsToDistinctIds ==
    Called("brand_summary") =>
        /\ SKUCountPerBrand
        /\ SumSKUCount(Len(ret.out.rows)) = Cardinality(DistinctIds(RowIds))

\* C7 amended: each group's SKUCount is the number of distinct Product_ID of
\* the brand's rows; the SKUCounts sum to the number of distinct (brand,
\* Product_ID) pairs, which is at least the number of distinct Product_ID and
\* equals it when no Product_ID occurs under two brands.
C7_SKUCountPerBrand ==
    Called("brand_summary") =>
        /\ SKUCountPerBrand
        /\ SumSKUCount(Len(ret.out.rows)) =
              Cardinality({<<Cell(i, "Product_Brand"), Cell(i, "Product_ID")>> :
                              i \in {r \in RowIds : ~isna(Cell(r, "Product_ID"))}})
        /\ SumSKUCount(Len(ret.out.rows)) >= Cardinality(DistinctIds(RowIds))
        /\ NoIdUnderTwoBrands =>
              SumSKUCount(Len(ret.out.rows)) = Cardinality(DistinctIds(RowIds))

\* one Product_ID under two brands: it is counted in both groups
C7_Witness ==
    /\ Called("brand_summary")
    /\ Len(ret.out.rows) = 2
    /\ Cardinality(DistinctIds(RowIds)) = 1
    /\ SumSKUCount(Len(ret.out.rows)) = 2

RECURSIVE SumOver(_, _)
\* the sum of column col over the rows S of INVENTORY_DF, missing values skipped
SumOver(S, col) ==
    IF S = {} THEN Num(0)
    ELSE LET i == CHOOSE x \in S : TRUE
         IN  IF isna(Cell(i, col)) THEN SumOver(S \ {i}, col)
             ELSE FAdd(Cell(i, col), SumOver(S \ {i}, col))

\* every brand of the table is the brand of exactly one row of the result
EveryBrandOnce ==
    /\ {ret.out.rows[g]["Product_Brand"] : g \in 1..Len(ret.out.rows)} =
          {Cell(i, "Product_Brand") : i \in RowIds}
    /\ Len(ret.out.rows) = Cardinality({Cell(i, "Product_Brand") : i \in RowIds})

\* every row of the table is in exactly one group, and a group's totals are the
\* sums over its rows
EveryRowInOneGroup ==
    /\ \A i \in RowIds :
          Cardinality({g \in 1..Len(ret.out.rows) : i \in GroupOf(g)}) = 1
    /\ \A g \in 1..Len(ret.out.rows) :
          /\ ret.out.rows[g]["TotalProfit"] = SumOver(GroupOf(g), "Profit")
          /\ ret.out.rows[g]["TotalStockValue"] = SumOver(GroupOf(g), "StockValue")

\* the groups of the rows without a brand: missing, or blank
BrandlessGroups ==
    {g \in 1..Len(ret.out.rows) : ret.out.rows[g]["Product_Brand"] \in {NaN, Str(<<>>)}}

TrimmedBrands ==
    {IF csv.rows[i]["Product_Brand"] = <<>> THEN NaN
     ELSE Str(strip(csv.rows[i]["Product_Brand"])) : i \in 1..Len(csv.rows)}

C9_TableUnchangedAndRepeatable ==
    pc = "ready" =>
        /\ INVENTORY_DF = load_inventory_data(csv)
        /\ "SellThroughRate" \notin ColumnSet(INVENTORY_DF)
        /\ memo.fn = ret.fn /\ memo.args = ret.args => ret.out = memo.out

\* fast_moving_products was called again with the arguments of an earlier call
\* that returned rows
C9_Witness ==
    /\ pc = "ready"
    /\ memo.again
    /\ memo.fn = "fast_moving_products"
    /\ ret.fn = memo.fn
    /\ ret.args = memo.args
    /\ Len(memo.out.rows) > 0

\* C10: render_view produces a table and a chart without error for every view:
\* a pie chart for brand-summary, a bar chart for the other three views, whose
\* sub-table carries the columns the chart reads.
C10_EveryViewRenders ==
    pc = "ready" /\ ret.op = "render_view" =>
        /\ ret.status = "ok"
        /\ ret.chart.kind = IF ret.fn = "brand_summary" THEN "pie" ELSE "bar"
        /\ ret.fn # "brand_summary" =>
              {"Product_Name", "Profit", "ProfitMargin"} \subseteq ColumnSet(ret.out)

====
